---- MODULE Spec2Model ----
(***************************************************************************)
(* Model of the Mir client window of qtubuntu                              *)
(* (src/src/ubuntumirclient/window.cpp): pixel-format negotiation, panel   *)
(* height, surface geometry, the window life cycle and the buffer-resize   *)
(* reconciliation.                                                         *)
(*                                                                         *)
(* Spec        the life cycle of one UbuntuWindow; every handler is one    *)
(*             step, the constructor and the destructor are split at      *)
(*             their blocking compositor calls.                            *)
(* SpecFormat  getPixelFormat applied to every bounded list of formats.    *)
(* SpecPanel   panelHeight applied to every bounded GRID_UNIT_PX text.     *)
(* SpecThreads one handler on the event thread and one on the rendering   *)
(*             thread, statement by statement, with the window's mutex.    *)
(* SpecCatchUp resize notifications and buffer swaps on the two threads,   *)
(*             repeated without end.                                       *)
(***************************************************************************)
EXTENDS Integers, Sequences, FiniteSets, TLC

\* ------------------------------------------------------------------ bounds
\* Largest buffer / geometry dimension the compositor and the toolkit use.
MaxDim == 2
\* Longest list of formats the connection reports.
MaxAvail == 3
\* Longest GRID_UNIT_PX text.
MaxEnvLen == 3
\* Largest y of the screen's available geometry.
MaxAvailY == 1
\* Screen size.
ScreenW == 48
ScreenH == 80
\* The history counter staleRun stops counting here.
MaxStaleRun == 3

\* --------------------------------------------------------------- QRect
\* QRect keeps its two corners; width and height are derived.
Rect(x, y, w, h) == [x1 |-> x, y1 |-> y, x2 |-> x + w - 1, y2 |-> y + h - 1]
\* QRect(): the null rectangle.
NullRect == [x1 |-> 0, y1 |-> 0, x2 |-> -1, y2 |-> -1]
Width(r) == r.x2 - r.x1 + 1
Height(r) == r.y2 - r.y1 + 1
\* QRect::size()
Size(r) == <<Width(r), Height(r)>>
\* QRect::setY moves the top edge and leaves the bottom edge where it is.
SetYMoveTop(r, y) == [r EXCEPT !.y1 = y, !.y2 = y + (r.y2 - r.y1)]
SetY(r, y) == [r EXCEPT !.y1 = y]
\* QRect::setWidth / setHeight move the right / bottom edge.
SetWidth(r, w) == [r EXCEPT !.x2 = r.x1 + w - 1]
SetHeight(r, h) == [r EXCEPT !.y2 = r.y1 + h - 1]
\* QRect(QPoint(), size)
RectOfSize(sz) == Rect(0, 0, sz[1], sz[2])
\* QSize(): the invalid size.
NullSize == <<-1, -1>>

\* ------------------------------------------------------- window states
WindowStates == {"NoState", "FullScreen", "Maximized", "Minimized", "Active"}

qtWindowStateToMirSurfaceState(s) ==
  CASE s = "NoState" -> "restored"
    [] s = "FullScreen" -> "fullscreen"
    [] s = "Maximized" -> "maximized"
    [] s = "Minimized" -> "minimized"
    [] OTHER -> "restored"

\* ------------------------------------------------------ getPixelFormat
formatsCount == 5
formats == <<"argb_8888", "abgr_8888", "xrgb_8888", "xbgr_8888", "bgr_888">>
mir_pixel_format_invalid == "invalid"
\* The formats a connection can report: the five candidates and one more.
MirPixelFormats == {"argb_8888", "abgr_8888", "xrgb_8888", "xbgr_8888",
                    "bgr_888", "rgb_565"}

\* The inner loop: j runs over availableFormats (0-based in the code).
RECURSIVE ScanAvailable(_, _, _)
ScanAvailable(fmt, availableFormats, j) ==
  IF j >= Len(availableFormats) THEN FALSE
  ELSE IF fmt = availableFormats[j + 1] THEN TRUE
  ELSE ScanAvailable(fmt, availableFormats, j + 1)

\* The outer loop: i runs over the priority list (0-based in the code).
RECURSIVE ScanFormats(_, _)
ScanFormats(availableFormats, i) ==
  IF i >= formatsCount THEN mir_pixel_format_invalid
  ELSE IF ScanAvailable(formats[i + 1], availableFormats, 0) THEN formats[i + 1]
  ELSE ScanFormats(availableFormats, i + 1)

StartIndexNoSkip(hasAlpha) == 0
StartIndex(hasAlpha) == IF hasAlpha THEN 0 ELSE 2

getPixelFormat(availableFormats, hasAlpha) ==
  ScanFormats(availableFormats, StartIndex(hasAlpha))

\* --------------------------------------------------------- panelHeight
defaultGridUnit == 8
Unset == <<"unset">>
Digits == {"0", "1", "2", "3", "4", "5", "6", "7", "8", "9"}
DigitVal(c) ==
  CASE c = "0" -> 0 [] c = "1" -> 1 [] c = "2" -> 2 [] c = "3" -> 3
    [] c = "4" -> 4 [] c = "5" -> 5 [] c = "6" -> 6 [] c = "7" -> 7
    [] c = "8" -> 8 [] c = "9" -> 9
IntMax == 2147483647
IntMin == (0 - IntMax) - 1

\* The digits of s from position i on, accumulated onto acc; -1 when a
\* character is not a digit.
RECURSIVE ParseDigits(_, _, _)
ParseDigits(s, i, acc) ==
  IF i > Len(s) THEN acc
  ELSE IF s[i] \in Digits THEN ParseDigits(s, i + 1, acc * 10 + DigitVal(s[i]))
  ELSE -1

\* QByteArray::toInt(&ok): an optional sign, then decimal digits only; the
\* value is 0 and ok is false when the text is not of that form or does not
\* fit an int.
toInt(s) ==
  LET signed == Len(s) > 0 /\ s[1] \in {"-", "+"}
      first == IF signed THEN 2 ELSE 1
      mag == IF first > Len(s) THEN -1 ELSE ParseDigits(s, first, 0)
      val == IF signed /\ s[1] = "-" THEN 0 - mag ELSE mag
  IN IF mag < 0 \/ val > IntMax \/ val < IntMin
       THEN [ok |-> FALSE, val |-> 0]
       ELSE [ok |-> TRUE, val |-> val]

\* qgetenv returns an empty array for a variable that is not set.
qgetenv(env) == IF env = Unset THEN <<>> ELSE env

GridUnitNoFallback(gridUnitString) ==
  IF gridUnitString # <<>> THEN toInt(gridUnitString).val ELSE defaultGridUnit
GridUnit(gridUnitString) ==
  IF gridUnitString # <<>>
    THEN (IF toInt(gridUnitString).ok THEN toInt(gridUnitString).val
          ELSE defaultGridUnit)
    ELSE defaultGridUnit

\* qFloor(gridUnit / 8.0) is the floor of the quotient, also below zero.
panelHeight(env) ==
  LET gridUnit == GridUnit(qgetenv(env))
  IN gridUnit * 3 + (gridUnit \div defaultGridUnit) * 2


\* ------------------------------------------------------------- state
VARIABLES
  pc,                     \* where the window is in its life cycle
  state,                  \* d->state
  surface,                \* d->surface
  eglSurface,             \* d->eglSurface: TRUE when not EGL_NO_SURFACE
  bufferSize,             \* d->bufferSize
  exposed,                \* d->exposed
  resizeCatchUpAttempts,  \* d->resizeCatchUpAttempts
  geometry,               \* QPlatformWindow::geometry()
  local,                  \* createWindow's locals while it waits
  call,                   \* the call made last, with its arguments
  out,                    \* what that call emitted and requested, in order
  ret,                    \* what that call returned
  staleRun,               \* history: swaps without a new size since the
                          \* last mismatched resize notification, -1 if none
  thr,                    \* the mutex and the two threads inside handlers
  hidden                  \* history: the last setVisible call hid the window

vars == <<pc, state, surface, eglSurface, bufferSize, exposed,
          resizeCatchUpAttempts, geometry, local, call, out, ret, staleRun,
          thr, hidden>>
fields == <<state, surface, eglSurface, bufferSize, exposed,
            resizeCatchUpAttempts, geometry>>

\* One toolkit notification or compositor / EGL request.
Ev(ev, rect, arg) == [ev |-> ev, rect |-> rect, arg |-> arg]
NoLocal == [geometry |-> NullRect, pixelFormat |-> "none"]
NoCall == [name |-> "none"]
\* The two threads that call into a window.
Threads == {"event", "render"}
\* No thread is inside a handler and the mutex is free.
NoThreads ==
  [mutex |-> "free",
   pc |-> [t \in Threads |-> "idle"],
   call |-> [t \in Threads |-> NoCall],
   seen |-> [t \in Threads |-> NoCall],
   start |-> [attempts |-> 0, bufferSize |-> NullSize, geometry |-> NullRect]]

\* ------------------------------------------------------------ inputs
Dims == 1..MaxDim
\* A buffer swap may report a dimension it does not know as 0.
SwapDims == 0..MaxDim
ScreenGeometry == Rect(0, 0, ScreenW, ScreenH)
AvailableGeometries ==
  {Rect(0, ay, ScreenW, ScreenH - ay) : ay \in 0..MaxAvailY}
WindowGeometries == {ScreenGeometry, Rect(1, 2, ScreenW - 8, ScreenH - 8)}
GeometryRects == {Rect(1, 0, w, h) : w \in Dims, h \in Dims}
GridUnitEnvs == {Unset, <<"1", "6">>, <<"b">>}
AvailableFormatLists ==
  {<<>>, <<"argb_8888">>, <<"xrgb_8888", "argb_8888">>, <<"bgr_888", "abgr_8888">>}
SCREEN_KEYBOARD_ROLE == 7
Roles == {1, SCREEN_KEYBOARD_ROLE}

\* The rectangle the handlers pass to handleExposeEvent.
ExposeRectAlways(isExposed, geom) == RectOfSize(Size(geom))
ExposeRect(isExposed, geom) ==
  IF isExposed THEN RectOfSize(Size(geom)) ELSE NullRect

\* -------------------------------------------------------------- Init
\* The constructor has initialised the fields (lines 130-147).
Init ==
  /\ pc = "constructing"
  /\ state \in WindowStates
  /\ surface = "nullptr"
  /\ eglSurface = FALSE
  /\ bufferSize = NullSize
  /\ exposed = TRUE
  /\ resizeCatchUpAttempts = 0
  /\ geometry = NullRect
  /\ local = NoLocal
  /\ call = NoCall
  /\ out = <<>>
  /\ ret = "none"
  /\ staleRun = -1
  /\ thr = NoThreads
  /\ hidden = FALSE

\* ------------------------------------------------------ createWindow
\* Lines 245-265: the rectangle the surface is created with.
ResolveGeometryOffset(st, screenGeometry, availableGeometry, current, ph) ==
  IF st = "FullScreen" THEN screenGeometry
  ELSE IF st = "Maximized" THEN SetY(availableGeometry, availableGeometry.y1 + ph)
  ELSE SetY(current, ph)
ResolveGeometry(st, screenGeometry, availableGeometry, current, ph) ==
  IF st = "FullScreen" THEN screenGeometry
  ELSE IF st = "Maximized" THEN SetY(availableGeometry, ph)
  ELSE SetY(current, ph)

\* Lines 276-290: the spec is built and the surface requested whatever
\* format getPixelFormat returned.
CreateRequests(role, geom, pixelFormat) ==
  <<Ev(IF role = SCREEN_KEYBOARD_ROLE
         THEN "mir_connection_create_spec_for_input_method"
         ELSE "mir_connection_create_spec_for_normal_surface",
       RectOfSize(Size(geom)), pixelFormat),
    Ev("mir_surface_create", NullRect, "")>>

\* The constructor from line 150 on and createWindow up to the wait for
\* mir_surface_create.
UbuntuWindow(windowGeometry, availGeometry, env, needsAlpha, availFormats, role) ==
  /\ pc = "constructing"
  /\ UNCHANGED <<thr, hidden>>
  /\ LET current == IF windowGeometry # ScreenGeometry
                      THEN windowGeometry ELSE availGeometry
         geom == ResolveGeometry(state, ScreenGeometry, availGeometry,
                                 current, panelHeight(env))
         pixelFormat == getPixelFormat(availFormats, needsAlpha)
     IN /\ geometry' = current
        /\ local' = [geometry |-> geom, pixelFormat |-> pixelFormat]
        /\ out' = CreateRequests(role, geom, pixelFormat)
  /\ call' = [name |-> "UbuntuWindow", windowGeometry |-> windowGeometry,
              availableGeometry |-> availGeometry, env |-> env,
              needsAlpha |-> needsAlpha,
              availableFormats |-> availFormats, role |-> role]
  /\ pc' = "creating"
  /\ UNCHANGED <<state, surface, eglSurface, bufferSize, exposed,
                 resizeCatchUpAttempts, ret, staleRun>>

\* Lines 115-122, run by the compositor client while createWindow waits.
StoredSurfaceNone == "nullptr"
StoredSurface == "surface"
surfaceCreateCallback ==
  /\ pc = "creating"
  /\ UNCHANGED <<thr, hidden>>
  /\ surface' = StoredSurface
  /\ call' = [name |-> "surfaceCreateCallback"]
  /\ out' = <<Ev("mir_surface_set_event_handler", NullRect, "")>>
  /\ pc' = "created"
  /\ UNCHANGED <<state, eglSurface, bufferSize, exposed,
                 resizeCatchUpAttempts, geometry, local, ret, staleRun>>

\* Lines 291-321: the wait has returned. eglOk is what
\* eglCreateWindowSurface delivers, params the size the compositor reports.
\* DASSERT is compiled out of a build with QT_NO_DEBUG, which then goes on
\* without an EGL surface.
CreatedGeometryAsRequested(resolved, params) == resolved
CreatedGeometry(resolved, params) ==
  SetHeight(SetWidth(resolved, params[1]), params[2])
CreateWindowEnd(eglOk, params) ==
  /\ pc = "created"
  /\ UNCHANGED <<thr, hidden>>
  /\ eglSurface' = eglOk
  /\ LET geom == CreatedGeometry(local.geometry, params)
     IN /\ bufferSize' = Size(geom)
        /\ geometry' = geom
        /\ out' = <<Ev("mir_surface_spec_release", NullRect, ""),
                    Ev("eglCreateWindowSurface", NullRect, "")>>
                  \o (IF state = "FullScreen"
                        THEN <<Ev("mir_surface_set_state", NullRect, "fullscreen")>>
                        ELSE <<>>)
                  \o <<Ev("handleGeometryChange", geom, "")>>
  /\ call' = [name |-> "createWindow", eglOk |-> eglOk, params |-> params,
              resolved |-> local.geometry]
  /\ local' = NoLocal
  /\ pc' = "live"
  /\ UNCHANGED <<state, surface, exposed, resizeCatchUpAttempts, ret, staleRun>>


\* ---------------------------------------------------------- handlers
\* Lines 107-113: an event of the surface is passed on to the input
\* dispatcher; possible from the moment the handler is registered.
eventCallback ==
  /\ pc \in {"created", "live", "destroying"}
  /\ UNCHANGED <<thr, hidden>>
  /\ call' = [name |-> "eventCallback"]
  /\ out' = <<Ev("postEvent", NullRect, "")>>
  /\ UNCHANGED <<pc, fields, local, ret, staleRun>>

\* Lines 330-353.
ArmedAttemptsOnce == 2 - 1
ArmedAttempts == 2
handleSurfaceResize(width, height) ==
  /\ pc = "live"
  /\ UNCHANGED <<thr, hidden>>
  /\ call' = [name |-> "handleSurfaceResize", width |-> width, height |-> height]
  /\ IF bufferSize[1] # width \/ bufferSize[2] # height
       THEN /\ resizeCatchUpAttempts' = ArmedAttempts
            /\ staleRun' = 0
            /\ out' = <<Ev("handleExposeEvent", ExposeRect(exposed, geometry), ""),
                        Ev("flushWindowSystemEvents", NullRect, "")>>
       ELSE /\ resizeCatchUpAttempts' = resizeCatchUpAttempts
            /\ staleRun' = staleRun
            /\ out' = <<>>
  /\ UNCHANGED <<pc, state, surface, eglSurface, bufferSize, exposed,
                 geometry, local, ret>>

\* Lines 355-371.
FocusEventsNotifyFirst(focused) ==
  <<Ev("handleWindowActivated", NullRect, IF focused THEN "window" ELSE "nullptr")>>
  \o (IF focused THEN <<Ev("requestDBusClipboardContents", NullRect, "")>> ELSE <<>>)
FocusEvents(focused) ==
  (IF focused THEN <<Ev("requestDBusClipboardContents", NullRect, "")>> ELSE <<>>)
  \o <<Ev("handleWindowActivated", NullRect, IF focused THEN "window" ELSE "nullptr")>>
handleSurfaceFocusChange(focused) ==
  /\ pc = "live"
  /\ UNCHANGED <<thr, hidden>>
  /\ call' = [name |-> "handleSurfaceFocusChange", focused |-> focused]
  /\ out' = FocusEvents(focused)
  /\ UNCHANGED <<pc, fields, local, ret, staleRun>>

\* Lines 373-384.
handleSurfaceExposeChange(e) ==
  /\ pc = "live"
  /\ UNCHANGED <<thr, hidden>>
  /\ call' = [name |-> "handleSurfaceExposeChange", exposed |-> e]
  /\ IF exposed # e
       THEN /\ exposed' = e
            /\ out' = <<Ev("handleExposeEvent", ExposeRect(e, geometry), ""),
                        Ev("flushWindowSystemEvents", NullRect, "")>>
       ELSE /\ exposed' = exposed
            /\ out' = <<>>
  /\ UNCHANGED <<pc, state, surface, eglSurface, bufferSize,
                 resizeCatchUpAttempts, geometry, local, ret, staleRun>>

\* Lines 386-397.
StateRequestsAlways(s) ==
  <<Ev("mir_surface_set_state", NullRect, qtWindowStateToMirSurfaceState(s))>>
StateRequests(s) ==
  IF s = state THEN <<>>
  ELSE <<Ev("mir_surface_set_state", NullRect, qtWindowStateToMirSurfaceState(s))>>
setWindowState(s) ==
  /\ pc = "live"
  /\ UNCHANGED <<thr, hidden>>
  /\ call' = [name |-> "setWindowState", state |-> s]
  /\ out' = StateRequests(s)
  /\ state' = s
  /\ UNCHANGED <<pc, surface, eglSurface, bufferSize, exposed,
                 resizeCatchUpAttempts, geometry, local, ret, staleRun>>

\* Lines 399-414; moveResize (lines 324-328) does nothing.
MoveResizeCallsAlways(rect) == <<Ev("moveResize", rect, "")>>
MoveResizeCalls(rect) ==
  IF state # "FullScreen" /\ state # "Maximized"
    THEN <<Ev("moveResize", rect, "")>>
    ELSE <<>>
setGeometry(rect) ==
  /\ pc = "live"
  /\ UNCHANGED <<thr, hidden>>
  /\ call' = [name |-> "setGeometry", rect |-> rect]
  /\ geometry' = rect
  /\ out' = MoveResizeCalls(rect)
  /\ UNCHANGED <<pc, state, surface, eglSurface, bufferSize, exposed,
                 resizeCatchUpAttempts, local, ret, staleRun>>

\* Lines 416-431.
VisibleStateStored(visible) == qtWindowStateToMirSurfaceState(state)
VisibleState(visible) ==
  IF visible THEN qtWindowStateToMirSurfaceState(state) ELSE "minimized"
setVisible(visible) ==
  /\ pc = "live"
  /\ UNCHANGED thr
  /\ hidden' = ~visible
  /\ call' = [name |-> "setVisible", visible |-> visible]
  /\ out' = <<Ev("mir_surface_set_state", NullRect, VisibleState(visible)),
              Ev("handleExposeEvent", ExposeRect(exposed, geometry), ""),
              Ev("flushWindowSystemEvents", NullRect, "")>>
  /\ UNCHANGED <<pc, fields, local, ret, staleRun>>

\* Lines 453-493.
SwappedGeometryAtOrigin(geom, w, h) == Rect(0, 0, w, h)
SwappedGeometry(geom, w, h) == SetHeight(SetWidth(geom, w), h)
\* The history counter after one more swap without a new size.
StaleRunAfter ==
  IF staleRun < 0 \/ staleRun >= MaxStaleRun THEN staleRun ELSE staleRun + 1
NeedsCatchUpAlways(n) == TRUE
NeedsCatchUp(n) == n > 0
AttemptsAfterStaleSwapStuck(n) == n
AttemptsAfterStaleSwap(n) == n - 1
onBuffersSwapped_threadSafe(newBufferWidth, newBufferHeight) ==
  /\ pc = "live"
  /\ UNCHANGED <<thr, hidden>>
  /\ call' = [name |-> "onBuffersSwapped_threadSafe",
              width |-> newBufferWidth, height |-> newBufferHeight]
  /\ LET sizeKnown == newBufferWidth > 0 /\ newBufferHeight > 0
     IN IF sizeKnown /\ (bufferSize[1] # newBufferWidth
                         \/ bufferSize[2] # newBufferHeight)
          THEN LET newGeometry ==
                     SwappedGeometry(geometry, newBufferWidth, newBufferHeight)
               IN /\ resizeCatchUpAttempts' = 0
                  /\ bufferSize' = <<newBufferWidth, newBufferHeight>>
                  /\ geometry' = newGeometry
                  /\ out' = <<Ev("handleGeometryChange", newGeometry, "")>>
                  /\ staleRun' = -1
          ELSE IF NeedsCatchUp(resizeCatchUpAttempts)
          THEN /\ resizeCatchUpAttempts' =
                    AttemptsAfterStaleSwap(resizeCatchUpAttempts)
               /\ out' = <<Ev("handleExposeEvent",
                              ExposeRect(exposed, geometry), "")>>
               /\ staleRun' = StaleRunAfter
               /\ UNCHANGED <<bufferSize, geometry>>
          ELSE /\ out' = <<>>
               /\ staleRun' = StaleRunAfter
               /\ UNCHANGED <<resizeCatchUpAttempts, bufferSize, geometry>>
  /\ UNCHANGED <<pc, state, surface, eglSurface, exposed, local, ret>>

\* -------------------------------------------------------- destructor
\* Lines 156-159 and 166-173: destroyEGLSurface.
EglDestroyRequestsAlways == <<Ev("eglDestroySurface", NullRect, "")>>
EglDestroyRequests ==
  IF eglSurface THEN <<Ev("eglDestroySurface", NullRect, "")>> ELSE <<>>
DestroyEGLSurface ==
  /\ pc = "live"
  /\ UNCHANGED <<thr, hidden>>
  /\ call' = [name |-> "~UbuntuWindow"]
  /\ out' = EglDestroyRequests
  /\ eglSurface' = FALSE
  /\ pc' = "destroying"
  /\ UNCHANGED <<state, surface, bufferSize, exposed, resizeCatchUpAttempts,
                 geometry, local, ret, staleRun>>

\* Lines 161-163: the surface is released and the private data deleted.
ReleaseSurface ==
  /\ pc = "destroying"
  /\ UNCHANGED <<thr, hidden>>
  /\ call' = [name |-> "mir_surface_release_sync"]
  /\ out' = <<Ev("mir_surface_release_sync", NullRect, "")>>
  /\ pc' = "destroyed"
  /\ UNCHANGED <<fields, local, ret, staleRun>>

\* ---------------------------------------------------------- the window
Next ==
  \/ \E wg \in WindowGeometries, ag \in AvailableGeometries,
        env \in GridUnitEnvs, a \in BOOLEAN,
        af \in AvailableFormatLists, role \in Roles :
       UbuntuWindow(wg, ag, env, a, af, role)
  \/ surfaceCreateCallback
  \/ \E eglOk \in BOOLEAN, w \in Dims, h \in Dims : CreateWindowEnd(eglOk, <<w, h>>)
  \/ eventCallback
  \/ \E w \in Dims, h \in Dims : handleSurfaceResize(w, h)
  \/ \E f \in BOOLEAN : handleSurfaceFocusChange(f)
  \/ \E e \in BOOLEAN : handleSurfaceExposeChange(e)
  \/ \E s \in WindowStates : setWindowState(s)
  \/ \E r \in GeometryRects : setGeometry(r)
  \/ \E v \in BOOLEAN : setVisible(v)
  \/ \E w \in SwapDims, h \in SwapDims : onBuffersSwapped_threadSafe(w, h)
  \/ DestroyEGLSurface
  \/ ReleaseSurface

Spec == Init /\ [][Next]_vars


\* ------------------------------------------- the pure functions alone
SeqsUpTo(S, n) == UNION {[1..k -> S] : k \in 0..n}
EnvChars == {"0", "1", "6", "-", "b"}
Bogus == <<"b", "o", "g", "u", "s">>
EnvTexts == {Unset, Bogus} \cup SeqsUpTo(EnvChars, MaxEnvLen)

\* Everything but the call is the state of a window not yet created.
Idle ==
  /\ state = "NoState"
  /\ surface = "nullptr"
  /\ eglSurface = FALSE
  /\ bufferSize = NullSize
  /\ exposed = TRUE
  /\ resizeCatchUpAttempts = 0
  /\ geometry = NullRect
  /\ local = NoLocal
  /\ out = <<>>
  /\ ret = "none"
  /\ staleRun = -1
  /\ thr = NoThreads
  /\ hidden = FALSE

InitFormat ==
  /\ Idle
  /\ pc = "calling"
  /\ call \in {[name |-> "getPixelFormat", availableFormats |-> af, hasAlpha |-> a] :
                 af \in SeqsUpTo(MirPixelFormats, MaxAvail), a \in BOOLEAN}

GetPixelFormatCall ==
  /\ pc = "calling"
  /\ UNCHANGED <<thr, hidden>>
  /\ call.name = "getPixelFormat"
  /\ ret' = getPixelFormat(call.availableFormats, call.hasAlpha)
  /\ pc' = "returned"
  /\ UNCHANGED <<fields, local, call, out, staleRun>>

NextFormat == GetPixelFormatCall
SpecFormat == InitFormat /\ [][NextFormat]_vars

InitPanel ==
  /\ Idle
  /\ pc = "calling"
  /\ call \in {[name |-> "panelHeight", env |-> e] : e \in EnvTexts}

PanelHeightCall ==
  /\ pc = "calling"
  /\ UNCHANGED <<thr, hidden>>
  /\ call.name = "panelHeight"
  /\ ret' = panelHeight(call.env)
  /\ pc' = "returned"
  /\ UNCHANGED <<fields, local, call, out, staleRun>>

NextPanel == PanelHeightCall
SpecPanel == InitPanel /\ [][NextPanel]_vars


\* ------------------------------------------- two threads on one window
\* One call on the event thread and one on the rendering thread of a live
\* window, statement by statement. Each handler begins with the statement
\* "QMutexLocker(&d->mutex);", which constructs an unnamed temporary: the
\* mutex is locked by its constructor and unlocked by its destructor at the
\* end of that statement, before the handler reads a field.
EventCalls ==
  {[name |-> "handleSurfaceResize", width |-> w, height |-> h] :
     w \in Dims, h \in Dims}
  \cup {[name |-> "handleSurfaceExposeChange", exposed |-> e] : e \in BOOLEAN}
  \cup {[name |-> "setWindowState", state |-> st] : st \in WindowStates}
  \cup {[name |-> "setVisible", visible |-> v] : v \in BOOLEAN}
  \cup {[name |-> "setGeometry", rect |-> r] : r \in GeometryRects}
RenderCalls ==
  {[name |-> "onBuffersSwapped_threadSafe", width |-> w, height |-> h] :
     w \in SwapDims, h \in SwapDims}
CallsOf(t) == IF t = "event" THEN EventCalls ELSE RenderCalls

\* A live window: created without GRID_UNIT_PX, buffer 1x1, the counter at
\* any value a resize notification and stale swaps leave behind.
InitThreads ==
  /\ pc = "live"
  /\ state \in {"NoState", "Maximized"}
  /\ surface = StoredSurface
  /\ eglSurface = TRUE
  /\ bufferSize = <<1, 1>>
  /\ exposed \in BOOLEAN
  /\ resizeCatchUpAttempts \in 0..ArmedAttempts
  /\ geometry = Rect(1, panelHeight(Unset), 1, 1)
  /\ local = NoLocal
  /\ call = NoCall
  /\ out = <<>>
  /\ ret = "none"
  /\ staleRun = -1
  /\ thr = [NoThreads EXCEPT !.start = [attempts |-> resizeCatchUpAttempts,
                                        bufferSize |-> bufferSize,
                                        geometry |-> geometry]]
  /\ hidden = FALSE

\* The thread enters a handler.
ThreadCall(t, c) ==
  /\ thr.pc[t] = "idle"
  /\ thr' = [thr EXCEPT !.pc[t] = "locker", !.call[t] = c]
  /\ UNCHANGED <<pc, fields, local, call, out, ret, staleRun, hidden>>

\* QMutexLocker's constructor locks the mutex (lines 332, 375, 388, 406,
\* 418, 455).
LockerCtor(t) ==
  /\ thr.pc[t] = "locker"
  /\ thr.mutex = "free"
  /\ thr' = [thr EXCEPT !.pc[t] = "unlocker", !.mutex = t]
  /\ UNCHANGED <<pc, fields, local, call, out, ret, staleRun, hidden>>

\* The temporary is destroyed at the end of the same statement.
PcAfterLocker == "read"
MutexAfterLocker(t) == "free"
LockerDtor(t) ==
  /\ thr.pc[t] = "unlocker"
  /\ thr' = [thr EXCEPT !.pc[t] = PcAfterLocker, !.mutex = MutexAfterLocker(t)]
  /\ UNCHANGED <<pc, fields, local, call, out, ret, staleRun, hidden>>

\* The handler reads the fields its conditions test: the buffer size in
\* lines 339 and 463, the counter in line 483, the exposed flag in line 379,
\* the state in lines 391 and 421. A field it does not read is not seen.
NotSeen == [name |-> "seen", state |-> "NoState", bufferSize |-> NullSize,
            exposed |-> FALSE, attempts |-> 0]
Seen(c) ==
  IF c.name = "handleSurfaceResize"
    THEN [NotSeen EXCEPT !.bufferSize = bufferSize]
  ELSE IF c.name = "onBuffersSwapped_threadSafe"
    THEN [NotSeen EXCEPT !.bufferSize = bufferSize,
                         !.attempts = resizeCatchUpAttempts]
  ELSE IF c.name = "handleSurfaceExposeChange"
    THEN [NotSeen EXCEPT !.exposed = exposed]
  ELSE IF c.name \in {"setWindowState", "setVisible"}
    THEN [NotSeen EXCEPT !.state = state]
  ELSE NotSeen
ReadFields(t) ==
  /\ thr.pc[t] = "read"
  /\ thr' = [thr EXCEPT !.pc[t] = "write", !.seen[t] = Seen(thr.call[t])]
  /\ UNCHANGED <<pc, fields, local, call, out, ret, staleRun, hidden>>

\* The handler acts on what it read. The decrement of line 484 is a read
\* and a write of its own: without the mutex it starts from the value the
\* test of line 483 saw or from the value the field has by then.
WriteFields(t) ==
  /\ thr.pc[t] = "write"
  /\ thr' = [thr EXCEPT !.pc[t] = "done"]
  /\ LET c == thr.call[t]
         seen == thr.seen[t]
     IN \/ /\ c.name = "handleSurfaceResize"
           /\ IF seen.bufferSize[1] # c.width \/ seen.bufferSize[2] # c.height
                THEN /\ resizeCatchUpAttempts' = ArmedAttempts
                     /\ out' = out \o
                          <<Ev("handleExposeEvent", ExposeRect(exposed, geometry), ""),
                            Ev("flushWindowSystemEvents", NullRect, "")>>
                ELSE UNCHANGED <<resizeCatchUpAttempts, out>>
           /\ UNCHANGED <<state, bufferSize, exposed, geometry>>
        \/ /\ c.name = "handleSurfaceExposeChange"
           /\ IF seen.exposed # c.exposed
                THEN /\ exposed' = c.exposed
                     /\ out' = out \o
                          <<Ev("handleExposeEvent", ExposeRect(c.exposed, geometry), ""),
                            Ev("flushWindowSystemEvents", NullRect, "")>>
                ELSE UNCHANGED <<exposed, out>>
           /\ UNCHANGED <<state, bufferSize, resizeCatchUpAttempts, geometry>>
        \/ /\ c.name = "setWindowState"
           /\ IF seen.state # c.state
                THEN /\ state' = c.state
                     /\ out' = Append(out, Ev("mir_surface_set_state", NullRect,
                                  qtWindowStateToMirSurfaceState(c.state)))
                ELSE UNCHANGED <<state, out>>
           /\ UNCHANGED <<bufferSize, exposed, resizeCatchUpAttempts, geometry>>
        \/ /\ c.name = "setVisible"
           /\ out' = out \o
                <<Ev("mir_surface_set_state", NullRect,
                     IF c.visible THEN qtWindowStateToMirSurfaceState(seen.state)
                     ELSE "minimized"),
                  Ev("handleExposeEvent", ExposeRect(exposed, geometry), ""),
                  Ev("flushWindowSystemEvents", NullRect, "")>>
           /\ UNCHANGED <<state, bufferSize, exposed, resizeCatchUpAttempts,
                          geometry>>
        \/ /\ c.name = "setGeometry"
           /\ geometry' = c.rect
           /\ out' = IF state # "FullScreen" /\ state # "Maximized"
                       THEN Append(out, Ev("moveResize", c.rect, ""))
                       ELSE out
           /\ UNCHANGED <<state, bufferSize, exposed, resizeCatchUpAttempts>>
        \/ /\ c.name = "onBuffersSwapped_threadSafe"
           /\ IF /\ c.width > 0
                 /\ c.height > 0
                 /\ (seen.bufferSize[1] # c.width \/ seen.bufferSize[2] # c.height)
                THEN LET newGeometry == SwappedGeometry(geometry, c.width, c.height)
                     IN /\ resizeCatchUpAttempts' = 0
                        /\ bufferSize' = <<c.width, c.height>>
                        /\ geometry' = newGeometry
                        /\ out' = Append(out, Ev("handleGeometryChange", newGeometry, ""))
                ELSE IF NeedsCatchUp(seen.attempts)
                THEN /\ \E n \in {seen.attempts, resizeCatchUpAttempts} :
                          resizeCatchUpAttempts' = AttemptsAfterStaleSwap(n)
                     /\ out' = Append(out, Ev("handleExposeEvent",
                                               ExposeRect(exposed, geometry), ""))
                     /\ UNCHANGED <<bufferSize, geometry>>
                ELSE UNCHANGED <<resizeCatchUpAttempts, bufferSize, geometry, out>>
           /\ UNCHANGED <<state, exposed>>
  /\ hidden' = IF thr.call[t].name = "setVisible"
                 THEN ~thr.call[t].visible ELSE hidden
  /\ UNCHANGED <<pc, surface, eglSurface, local, call, ret, staleRun>>

NextThreads ==
  \/ \E t \in Threads : \E c \in CallsOf(t) : ThreadCall(t, c)
  \/ \E t \in Threads : LockerCtor(t)
  \/ \E t \in Threads : LockerDtor(t)
  \/ \E t \in Threads : ReadFields(t)
  \/ \E t \in Threads : WriteFields(t)
SpecThreads == InitThreads /\ [][NextThreads]_vars

\* Resize notifications on the event thread and buffer swaps on the
\* rendering thread, any number of them: a handler that has returned is
\* called again. out is emptied at each return.
CatchUpCalls(t) ==
  {c \in CallsOf(t) :
     c.name \in {"handleSurfaceResize", "onBuffersSwapped_threadSafe"}}
ThreadReturn(t) ==
  /\ thr.pc[t] = "done"
  /\ thr' = [thr EXCEPT !.pc[t] = "idle", !.call[t] = NoCall, !.seen[t] = NoCall]
  /\ out' = <<>>
  /\ UNCHANGED <<pc, fields, local, call, ret, staleRun, hidden>>
InitCatchUp == InitThreads /\ state = "NoState"
NextCatchUp ==
  \/ \E t \in Threads : \E c \in CatchUpCalls(t) : ThreadCall(t, c)
  \/ \E t \in Threads : LockerCtor(t)
  \/ \E t \in Threads : LockerDtor(t)
  \/ \E t \in Threads : ReadFields(t)
  \/ \E t \in Threads : WriteFields(t)
  \/ \E t \in Threads : ThreadReturn(t)
SpecCatchUp == InitCatchUp /\ [][NextCatchUp]_vars

\* ======================================================== properties
Range(seq) == {seq[i] : i \in 1..Len(seq)}
\* The compositor state requests among what a call emitted.
StateRequestsIn(o) == SelectSeq(o, LAMBDA e : e.ev = "mir_surface_set_state")
ExposesIn(o) == SelectSeq(o, LAMBDA e : e.ev = "handleExposeEvent")
Swapped == call.name = "onBuffersSwapped_threadSafe"

\* The first entry of the priority list, from position `from` on, that is
\* in the set `supported`.
FirstSupported(from, supported) ==
  LET S == {i \in from..5 : formats[i] \in supported}
  IN IF S = {} THEN "invalid"
     ELSE formats[CHOOSE i \in S : \A j \in S : i <= j]

\* C1: getPixelFormat returns the first entry of [ARGB, ABGR, XRGB, XBGR,
\* BGR], scanned from the first entry when alpha is needed and from the
\* third when it is not, that is in the set of formats the connection
\* reports, whatever the order of the report; so never ARGB or ABGR without
\* alpha, and the best alpha format present with alpha.
C1_PriorityFormat ==
  (pc = "returned" /\ call.name = "getPixelFormat") =>
    LET supported == Range(call.availableFormats)
    IN /\ ret = FirstSupported(IF call.hasAlpha THEN 1 ELSE 3, supported)
       /\ (~call.hasAlpha => ret \notin {"argb_8888", "abgr_8888"})
       /\ (call.hasAlpha /\ "argb_8888" \in supported => ret = "argb_8888")
       /\ (call.hasAlpha /\ "argb_8888" \notin supported
             /\ "abgr_8888" \in supported => ret = "abgr_8888")

\* C1 witness: without alpha, ARGB listed first and BGR before XRGB, the
\* result is XRGB.
C1_Witness ==
  /\ pc = "returned"
  /\ call.name = "getPixelFormat"
  /\ ~call.hasAlpha
  /\ call.availableFormats = <<"argb_8888", "bgr_888", "xrgb_8888">>
  /\ ret = "xrgb_8888"

\* C2: when getPixelFormat returns the invalid format, window creation
\* builds no surface spec and does not call mir_surface_create.
C2_NoCreateWithInvalidFormat ==
  (pc = "creating" /\ local.pixelFormat = mir_pixel_format_invalid) =>
    \A i \in 1..Len(out) :
      out[i].ev \notin {"mir_connection_create_spec_for_normal_surface",
                        "mir_connection_create_spec_for_input_method",
                        "mir_surface_create"}

\* C3 as stated: for a maximized window the rectangle resolved for surface
\* creation has Y origin availableGeometry.y + panelHeight.
C3_MaximizedYIsAvailablePlusPanel ==
  (pc = "creating" /\ call.name = "UbuntuWindow" /\ state = "Maximized") =>
    local.geometry.y1 = call.availableGeometry.y1 + panelHeight(call.env)

\* C3 amended: for a maximized window the rectangle resolved for surface
\* creation has Y origin panelHeight, whatever the y of the available
\* geometry, and the other three edges of the available geometry.
C3_MaximizedYIsPanelHeight ==
  (pc = "creating" /\ call.name = "UbuntuWindow" /\ state = "Maximized") =>
    /\ local.geometry.y1 = panelHeight(call.env)
    /\ local.geometry.x1 = call.availableGeometry.x1
    /\ local.geometry.x2 = call.availableGeometry.x2
    /\ local.geometry.y2 = call.availableGeometry.y2

\* C3 witness: a maximized window on a screen whose available geometry
\* starts at y = 1, GRID_UNIT_PX not set: Y origin 26.
C3_Witness ==
  /\ pc = "creating"
  /\ call.name = "UbuntuWindow"
  /\ state = "Maximized"
  /\ call.availableGeometry.y1 = 1
  /\ call.env = Unset
  /\ local.geometry.y1 = 26

\* Decimal text of an integer.
DigitChars == <<"0", "1", "2", "3", "4", "5", "6", "7", "8", "9">>
RECURSIVE NatToStr(_)
NatToStr(n) ==
  IF n < 10 THEN <<DigitChars[n + 1]>>
  ELSE Append(NatToStr(n \div 10), DigitChars[(n % 10) + 1])
IntToStr(n) == IF n < 0 THEN <<"-">> \o NatToStr(0 - n) ELSE NatToStr(n)
\* A text that is an optional sign followed by one or more digits.
IsIntegerText(s) ==
  /\ s # Unset
  /\ Len(s) > 0
  /\ LET body == IF s[1] \in {"-", "+"} THEN Tail(s) ELSE s
     IN Len(body) > 0 /\ \A i \in 1..Len(body) : body[i] \in Digits
RECURSIVE DropZeros(_)
DropZeros(b) == IF Len(b) > 1 /\ b[1] = "0" THEN DropZeros(Tail(b)) ELSE b
\* The same integer text without a plus sign, leading zeros or minus zero.
Canonical(s) ==
  LET body == IF s[1] \in {"-", "+"} THEN Tail(s) ELSE s
      d == DropZeros(body)
  IN IF s[1] = "-" /\ d # <<"0">> THEN <<"-">> \o d ELSE d
RECURSIVE Pow10(_)
Pow10(k) == IF k = 0 THEN 1 ELSE 10 * Pow10(k - 1)
\* The integers a text of at most MaxEnvLen characters can denote.
EnvInts == (0 - Pow10(MaxEnvLen - 1))..Pow10(MaxEnvLen)

\* C4: panelHeight is gridUnit*3 + floor(gridUnit/8)*2 for the integer
\* gridUnit that GRID_UNIT_PX denotes, and 26 (gridUnit 8) when the variable
\* is missing, empty or not an integer; "16" gives 52 and "bogus" gives 26.
C4_PanelHeight ==
  (pc = "returned" /\ call.name = "panelHeight") =>
    /\ \A n \in EnvInts :
         (IsIntegerText(call.env) /\ Canonical(call.env) = IntToStr(n))
           => ret = n * 3 + (n \div 8) * 2
    /\ (IsIntegerText(call.env) =>
          \E n \in EnvInts : Canonical(call.env) = IntToStr(n))
    /\ (~IsIntegerText(call.env) => ret = 26)
    /\ (call.env = <<"1", "6">> => ret = 52)
    /\ (call.env = Bogus => ret = 26)
    /\ (call.env \in {Unset, <<>>} => ret = 26)

\* C4 witness: GRID_UNIT_PX=16 has given 52.
C4_Witness ==
  /\ pc = "returned"
  /\ call.name = "panelHeight"
  /\ call.env = <<"1", "6">>
  /\ ret = 52

\* C5: a buffer swap that reports a valid size different from the stored
\* buffer size stores that size, gives the geometry that width and height
\* with its origin unchanged, clears resizeCatchUpAttempts, and emits one
\* geometry-change notification with that rectangle and nothing else.
C5_SwapNewSize ==
  [][(/\ pc = "live"
      /\ call'.name = "onBuffersSwapped_threadSafe"
      /\ call'.width > 0
      /\ call'.height > 0
      /\ bufferSize # <<call'.width, call'.height>>)
     => (/\ bufferSize' = <<call'.width, call'.height>>
         /\ Width(geometry') = call'.width
         /\ Height(geometry') = call'.height
         /\ geometry'.x1 = geometry.x1
         /\ geometry'.y1 = geometry.y1
         /\ resizeCatchUpAttempts' = 0
         /\ out' = <<Ev("handleGeometryChange", geometry', "")>>)]_vars

\* C5 witness: such a swap has happened on a window whose origin is not 0,0.
C5_Witness ==
  /\ Swapped
  /\ bufferSize = <<call.width, call.height>>
  /\ out = <<Ev("handleGeometryChange", geometry, "")>>
  /\ geometry.x1 = 1
  /\ geometry.y1 = 26
  /\ Size(geometry) = bufferSize

\* C6: after a resize notification with a size other than the stored one,
\* of the following swaps that bring no new size the first two each emit one
\* expose event, the counter is 0 after the second, and the third and later
\* ones emit nothing and change no field.
C6_TwoCatchUpExposes ==
  [][(call'.name = "onBuffersSwapped_threadSafe" /\ staleRun >= 0
        /\ staleRun' >= 1)
     => (/\ (staleRun = 0 =>
               /\ Len(ExposesIn(out')) = 1
               /\ resizeCatchUpAttempts' = 1)
         /\ (staleRun = 1 =>
               /\ Len(ExposesIn(out')) = 1
               /\ resizeCatchUpAttempts' = 0)
         /\ (staleRun >= 2 =>
               /\ out' = <<>>
               /\ resizeCatchUpAttempts' = 0
               /\ UNCHANGED fields))]_vars

\* C6 witness: the third swap in a row without a new size has emitted nothing.
C6_Witness ==
  /\ Swapped
  /\ staleRun = 3
  /\ out = <<>>
  /\ resizeCatchUpAttempts = 0
  /\ call.width = bufferSize[1]
  /\ call.height = bufferSize[2]

\* C7: setWindowState(s) requests a state change from the compositor exactly
\* when s is not the stored state, the stored state is s afterwards, and a
\* second call with the same state directly after the first requests nothing.
C7_SetWindowState ==
  [][(pc = "live" /\ call'.name = "setWindowState")
     => (/\ state' = call'.state
         /\ (call'.state # state =>
               out' = <<Ev("mir_surface_set_state", NullRect,
                           qtWindowStateToMirSurfaceState(call'.state))>>)
         /\ (call'.state = state => out' = <<>>)
         /\ ((call.name = "setWindowState" /\ call.state = call'.state) =>
               /\ out' = <<>>
               /\ Len(StateRequestsIn(out)) + Len(StateRequestsIn(out')) <= 1))]_vars

\* C7 witness: a window has been asked to become maximized and the request
\* went out.
C7_Witness ==
  /\ call.name = "setWindowState"
  /\ call.state = "Maximized"
  /\ state = "Maximized"
  /\ out = <<Ev("mir_surface_set_state", NullRect, "maximized")>>

\* The compositor state that belongs to each window state.
MirStateOf ==
  [NoState |-> "restored", FullScreen |-> "fullscreen",
   Maximized |-> "maximized", Minimized |-> "minimized"]

\* C8: setVisible(false) requests exactly the minimized state and keeps the
\* stored window state; setVisible(true), also right after it, requests
\* exactly the compositor state that belongs to the stored window state.
C8_SetVisible ==
  [][(pc = "live" /\ call'.name = "setVisible")
     => (/\ state' = state
         /\ Len(StateRequestsIn(out')) = 1
         /\ (~call'.visible => StateRequestsIn(out')[1].arg = "minimized")
         /\ ((call'.visible /\ state \in DOMAIN MirStateOf) =>
               StateRequestsIn(out')[1].arg = MirStateOf[state]))]_vars

\* C8 witness: a maximized window has been hidden: minimized was requested
\* and the stored state is still maximized.
C8_Witness ==
  /\ call.name = "setVisible"
  /\ ~call.visible
  /\ state = "Maximized"
  /\ StateRequestsIn(out) = <<Ev("mir_surface_set_state", NullRect, "minimized")>>

\* C9 as stated: in every state the EGL surface is present exactly when the
\* compositor surface handle is not null.
C9_EglIffSurface == eglSurface <=> (surface # "nullptr")

\* C9 amended: in every state a present EGL surface implies a non-null
\* surface handle; both are absent until the surface-created callback has
\* run; when createWindow returns the handle is non-null and the EGL surface
\* is what eglCreateWindowSurface delivered; no handler changes either.
C9_EglImpliesSurface ==
  /\ [](/\ (eglSurface => surface # "nullptr")
        /\ (pc \in {"constructing", "creating"} =>
              ~eglSurface /\ surface = "nullptr")
        /\ (pc \in {"created", "live", "destroying", "destroyed"} =>
              surface # "nullptr")
        /\ ((pc = "live" /\ call.name = "createWindow") =>
              eglSurface = call.eglOk))
  /\ [][(pc = "live" /\ pc' = "live") =>
          (eglSurface' = eglSurface /\ surface' = surface)]_vars

\* C9 witness: a live window on which a handler has run has both.
C9_Witness ==
  /\ pc = "live"
  /\ call.name = "setGeometry"
  /\ eglSurface
  /\ surface = "surface"

\* C10 as stated: once the counter is 0 and a swap with the stored size has
\* arrived, the stored buffer size and the size of the geometry are equal.
C10_ConvergedWhenCounterZero ==
  (/\ pc = "live"
   /\ Swapped
   /\ eglSurface
   /\ call.width = bufferSize[1]
   /\ call.height = bufferSize[2]
   /\ resizeCatchUpAttempts = 0) =>
    bufferSize = Size(geometry)

\* C10 amended: a swap makes the two sizes equal when it reports a valid size
\* different from the stored one; a mismatched resize notification is
\* followed by at most 2 forced redraws (the counter stays in 0..2 and each
\* swap without a new size lowers it by one down to 0); a swap without a new
\* size changes neither size, so a difference stays once the counter is 0.
C10_BoundedCatchUp ==
  /\ [](resizeCatchUpAttempts \in 0..2)
  /\ [][(pc = "live" /\ call'.name = "onBuffersSwapped_threadSafe") =>
          IF /\ call'.width > 0
             /\ call'.height > 0
             /\ bufferSize # <<call'.width, call'.height>>
            THEN bufferSize' = Size(geometry') /\ resizeCatchUpAttempts' = 0
            ELSE /\ bufferSize' = bufferSize
                 /\ geometry' = geometry
                 /\ (resizeCatchUpAttempts > 0 =>
                       /\ resizeCatchUpAttempts' = resizeCatchUpAttempts - 1
                       /\ Len(ExposesIn(out')) = 1)
                 /\ (resizeCatchUpAttempts = 0 =>
                       /\ resizeCatchUpAttempts' = 0
                       /\ out' = <<>>)]_vars

\* C10 witness: after setGeometry gave the geometry another size, a swap
\* with the stored size and counter 0 has left the two sizes different.
C10_Witness ==
  /\ pc = "live"
  /\ Swapped
  /\ resizeCatchUpAttempts = 0
  /\ out = <<>>
  /\ call.width = bufferSize[1]
  /\ call.height = bufferSize[2]
  /\ bufferSize # Size(geometry)


\* A thread is between reading and writing the fields of the window.
InSection(t) == thr.pc[t] \in {"read", "write"}

\* C11: the read-modify-write sections of the handlers are mutually
\* exclusive: at no time are the event thread and the rendering thread both
\* between reading and writing the fields of one window.
C11_MutualExclusion ==
  ~(InSection("event") /\ InSection("render"))


Called(ev, o) == \E i \in 1..Len(o) : o[i].ev = ev
CountOf(ev, o) == Len(SelectSeq(o, LAMBDA e : e.ev = ev))
FlushEv == Ev("flushWindowSystemEvents", NullRect, "")

\* C12: handleSurfaceExposeChange(e) changes the exposed flag and emits an
\* expose event followed by a forced flush exactly when e differs from the
\* flag; the rectangle is (0, 0, size of the geometry) when e is true and
\* the empty rectangle when e is false; with the same value nothing is
\* emitted and nothing changes.
C12_ExposeChange ==
  [][(pc = "live" /\ call'.name = "handleSurfaceExposeChange")
     => (/\ exposed' = call'.exposed
         /\ UNCHANGED <<state, surface, eglSurface, bufferSize,
                        resizeCatchUpAttempts, geometry>>
         /\ (call'.exposed # exposed =>
               out' = <<Ev("handleExposeEvent",
                           IF call'.exposed
                             THEN Rect(0, 0, Width(geometry), Height(geometry))
                             ELSE NullRect, ""),
                        FlushEv>>)
         /\ (call'.exposed = exposed => out' = <<>>))]_vars

\* C12 witness: a window has been told it is no longer exposed: the empty
\* rectangle and a flush went out.
C12_Witness ==
  /\ call.name = "handleSurfaceExposeChange"
  /\ ~call.exposed
  /\ ~exposed
  /\ out = <<Ev("handleExposeEvent", NullRect, ""), FlushEv>>

\* C13: handleSurfaceFocusChange(true) requests the clipboard contents and
\* then notifies the activation of this window; handleSurfaceFocusChange(false)
\* notifies the activation of no window and requests no clipboard contents;
\* each call emits exactly one activation notification.
C13_FocusChange ==
  [][(pc = "live" /\ call'.name = "handleSurfaceFocusChange")
     => (/\ CountOf("handleWindowActivated", out') = 1
         /\ (call'.focused =>
               out' = <<Ev("requestDBusClipboardContents", NullRect, ""),
                        Ev("handleWindowActivated", NullRect, "window")>>)
         /\ (~call'.focused =>
               out' = <<Ev("handleWindowActivated", NullRect, "nullptr")>>)
         /\ UNCHANGED fields)]_vars

\* C13 witness: the window has gained focus: clipboard request, then
\* activation.
C13_Witness ==
  /\ call.name = "handleSurfaceFocusChange"
  /\ call.focused
  /\ Len(out) = 2
  /\ out[1].ev = "requestDBusClipboardContents"
  /\ out[2] = Ev("handleWindowActivated", NullRect, "window")

\* C14: on destruction the EGL surface is destroyed before the compositor
\* surface is released; eglDestroySurface is called at most once and not at
\* all when the EGL surface is absent; the release is issued exactly once.
C14_DestroyOrder ==
  /\ [][(pc = "live" /\ pc' = "destroying") =>
          /\ out' = (IF eglSurface THEN <<Ev("eglDestroySurface", NullRect, "")>>
                     ELSE <<>>)
          /\ ~eglSurface']_vars
  /\ [][(pc # "destroyed" /\ pc' = "destroyed") =>
          /\ pc = "destroying"
          /\ ~eglSurface
          /\ out' = <<Ev("mir_surface_release_sync", NullRect, "")>>]_vars
  /\ [][(Called("eglDestroySurface", out') /\ out' # out) =>
          (pc = "live" /\ pc' = "destroying")]_vars
  /\ [][(Called("mir_surface_release_sync", out') /\ out' # out) =>
          (pc = "destroying" /\ pc' = "destroyed")]_vars
  /\ [](pc = "destroyed" => ~ENABLED ReleaseSurface)
  /\ [](pc \in {"destroying", "destroyed"} => ~ENABLED DestroyEGLSurface)

\* C14 witness: a window has been destroyed: its EGL surface is gone and
\* the release of its surface is the last request made.
C14_Witness ==
  /\ pc = "destroyed"
  /\ ~eglSurface
  /\ out = <<Ev("mir_surface_release_sync", NullRect, "")>>

\* C15: during creation the surface-created callback runs once, stores the
\* surface handle and registers the event handler, before createWindow goes
\* on to create the EGL surface; no event is passed to the input dispatcher
\* before the handle is stored.
C15_CallbackBeforeEgl ==
  /\ [][call'.name = "surfaceCreateCallback" =>
          /\ pc = "creating"
          /\ surface = "nullptr"
          /\ surface' # "nullptr"
          /\ out' = <<Ev("mir_surface_set_event_handler", NullRect, "")>>
          /\ ~eglSurface']_vars
  /\ [][surface' # surface => call'.name = "surfaceCreateCallback"]_vars
  /\ [][(Called("eglCreateWindowSurface", out') /\ out' # out) =>
          (pc = "created" /\ surface # "nullptr")]_vars
  /\ [](Called("postEvent", out) => surface # "nullptr")
  /\ [](pc # "creating" => ~ENABLED surfaceCreateCallback)

\* C15 witness: an event has been passed on while createWindow had not yet
\* created the EGL surface.
C15_Witness ==
  /\ pc = "created"
  /\ call.name = "eventCallback"
  /\ surface = "surface"
  /\ ~eglSurface
  /\ out = <<Ev("postEvent", NullRect, "")>>

\* C16: creation requests the fullscreen state from the compositor exactly
\* when the stored window state is fullscreen, and does so when the surface
\* and its EGL surface exist; otherwise creation requests no state.
C16_FullscreenAfterEgl ==
  (pc = "live" /\ call.name = "createWindow") =>
    /\ (state = "FullScreen" <=> Called("mir_surface_set_state", out))
    /\ (Called("mir_surface_set_state", out) =>
          /\ StateRequestsIn(out) =
               <<Ev("mir_surface_set_state", NullRect, "fullscreen")>>
          /\ surface # "nullptr"
          /\ eglSurface)

\* C17: when createWindow returns, the stored buffer size and the size of the
\* geometry are the size the compositor reports, the origin of the geometry
\* is the resolved origin, and one geometry-change notification with that
\* rectangle was emitted.
C17_CreatedSize ==
  [][call'.name = "createWindow"
     => (/\ pc = "created"
         /\ bufferSize' = call'.params
         /\ Size(geometry') = call'.params
         /\ geometry'.x1 = local.geometry.x1
         /\ geometry'.y1 = local.geometry.y1
         /\ CountOf("handleGeometryChange", out') = 1
         /\ Called("handleGeometryChange", out')
         /\ out'[Len(out')] = Ev("handleGeometryChange", geometry', ""))]_vars

\* C17 witness: the compositor has reported another size than the one
\* requested and the window has taken it.
C17_Witness ==
  /\ pc = "live"
  /\ call.name = "createWindow"
  /\ Size(call.resolved) # call.params
  /\ bufferSize = call.params
  /\ Size(geometry) = call.params
  /\ geometry.y1 = 26

\* C18: setGeometry(rect) always stores rect as the geometry; it calls
\* moveResize exactly when the stored state is neither fullscreen nor
\* maximized; it makes no compositor request and leaves the window state,
\* buffer size, exposed flag and counter as they are.
C18_SetGeometry ==
  [][(pc = "live" /\ call'.name = "setGeometry")
     => (/\ geometry' = call'.rect
         /\ (state \notin {"FullScreen", "Maximized"} =>
               out' = <<Ev("moveResize", call'.rect, "")>>)
         /\ (state \in {"FullScreen", "Maximized"} => out' = <<>>)
         /\ UNCHANGED <<state, surface, eglSurface, bufferSize, exposed,
                        resizeCatchUpAttempts>>)]_vars

\* C18 witness: the geometry of a maximized window has been set and
\* moveResize was not called.
C18_Witness ==
  /\ call.name = "setGeometry"
  /\ state = "Maximized"
  /\ geometry = call.rect
  /\ out = <<>>
  /\ bufferSize # Size(geometry)

\* C19: handleSurfaceResize(w, h) with a size other than the stored buffer
\* size sets the counter to 2, whatever it was, emits one expose event and a
\* flush, and keeps the buffer size and the geometry; with the stored size it
\* changes nothing and emits nothing.
C19_Resize ==
  [][(pc = "live" /\ call'.name = "handleSurfaceResize")
     => (/\ UNCHANGED <<state, surface, eglSurface, bufferSize, exposed, geometry>>
         /\ (<<call'.width, call'.height>> # bufferSize =>
               /\ resizeCatchUpAttempts' = 2
               /\ out' = <<Ev("handleExposeEvent",
                              IF exposed THEN Rect(0, 0, Width(geometry),
                                                   Height(geometry))
                              ELSE NullRect, ""),
                           FlushEv>>)
         /\ (<<call'.width, call'.height>> = bufferSize =>
               /\ resizeCatchUpAttempts' = resizeCatchUpAttempts
               /\ out' = <<>>))]_vars

\* C19 witness: a resize notification with another size has armed the
\* counter.
C19_Witness ==
  /\ call.name = "handleSurfaceResize"
  /\ <<call.width, call.height>> # bufferSize
  /\ resizeCatchUpAttempts = 2
  /\ Len(out) = 2
  /\ out[1].ev = "handleExposeEvent"
  /\ out[2] = FlushEv

\* A swap that brings no valid size other than the stored one.
StaleSwapNext ==
  /\ pc = "live"
  /\ call'.name = "onBuffersSwapped_threadSafe"
  /\ ~(/\ call'.width > 0
       /\ call'.height > 0
       /\ <<call'.width, call'.height>> # bufferSize)

\* C20 as stated: such a swap with a positive counter lowers the counter by
\* one and emits an expose event followed by a forced flush; with the
\* counter at 0 it emits nothing and changes nothing.
C20_StaleSwapExposeAndFlush ==
  [][StaleSwapNext
     => (/\ (resizeCatchUpAttempts > 0 =>
               /\ resizeCatchUpAttempts' = resizeCatchUpAttempts - 1
               /\ Len(out') = 2
               /\ out'[1].ev = "handleExposeEvent"
               /\ out'[2] = FlushEv)
         /\ (resizeCatchUpAttempts = 0 => out' = <<>> /\ UNCHANGED fields))]_vars

\* C20 amended: such a swap with a positive counter lowers the counter by
\* one and emits one expose event and no flush; with the counter at 0 it
\* emits nothing and changes nothing.
C20_StaleSwapExpose ==
  [][StaleSwapNext
     => (/\ (resizeCatchUpAttempts > 0 =>
               /\ resizeCatchUpAttempts' = resizeCatchUpAttempts - 1
               /\ out' = <<Ev("handleExposeEvent",
                              IF exposed THEN Rect(0, 0, Width(geometry),
                                                   Height(geometry))
                              ELSE NullRect, "")>>
               /\ UNCHANGED <<state, surface, eglSurface, bufferSize, exposed,
                              geometry>>)
         /\ (resizeCatchUpAttempts = 0 => out' = <<>> /\ UNCHANGED fields))]_vars

\* C20 witness: a swap with the stored size has lowered the counter to 1
\* and emitted one expose event.
C20_Witness ==
  /\ Swapped
  /\ <<call.width, call.height>> = bufferSize
  /\ resizeCatchUpAttempts = 1
  /\ Len(out) = 1
  /\ out[1].ev = "handleExposeEvent"


\* C21: resizeCatchUpAttempts is 0, 1 or 2 in every reachable state, however
\* the resize notifications of the event thread and the buffer swaps of the
\* rendering thread interleave.
C21_AttemptsInRange == resizeCatchUpAttempts \in {0, 1, 2}

\* C21 witness: a swap that saw the counter at 1 has written 0 after a
\* resize notification armed it in between.
C21_Witness ==
  /\ thr.pc["event"] = "done"
  /\ thr.pc["render"] = "done"
  /\ thr.seen["render"].attempts = 1
  /\ Len(out) = 3
  /\ out[2] = FlushEv
  /\ out[3].ev = "handleExposeEvent"
  /\ resizeCatchUpAttempts = 0


\* handleSurfaceResize and onBuffersSwapped_threadSafe run alone, as
\* functions of the counter, the buffer size, the geometry and the set of
\* expose and geometry events emitted so far.
ResizeAlone(f, w, h) ==
  IF f.bufferSize # <<w, h>>
    THEN [f EXCEPT !.attempts = ArmedAttempts,
                   !.events = @ \cup {Ev("handleExposeEvent",
                                         ExposeRect(exposed, f.geometry), "")}]
    ELSE f
SwapAlone(f, w, h) ==
  IF w > 0 /\ h > 0 /\ f.bufferSize # <<w, h>>
    THEN [attempts |-> 0, bufferSize |-> <<w, h>>,
          geometry |-> SwappedGeometry(f.geometry, w, h),
          events |-> f.events \cup
            {Ev("handleGeometryChange", SwappedGeometry(f.geometry, w, h), "")}]
  ELSE IF NeedsCatchUp(f.attempts)
    THEN [f EXCEPT !.attempts = AttemptsAfterStaleSwap(f.attempts),
                   !.events = @ \cup {Ev("handleExposeEvent",
                                         ExposeRect(exposed, f.geometry), "")}]
  ELSE f
\* What is compared: the counter, the buffer size, the events.
Outcome(f) == <<f.attempts, f.bufferSize, f.events>>
StartOutcome ==
  [attempts |-> thr.start.attempts, bufferSize |-> thr.start.bufferSize,
   geometry |-> thr.start.geometry, events |-> {}]
\* One resize notification and one buffer swap have both returned.
ResizeAndSwapDone ==
  /\ thr.pc["event"] = "done"
  /\ thr.pc["render"] = "done"
  /\ thr.call["event"].name = "handleSurfaceResize"

\* C22: after one handleSurfaceResize on the event thread and one
\* onBuffersSwapped_threadSafe on the rendering thread, the counter, the
\* stored buffer size and the set of expose and geometry events emitted are
\* those of the resize followed by the swap or of the swap followed by the
\* resize.
C22_Serializable ==
  ResizeAndSwapDone =>
    LET r == thr.call["event"]
        s == thr.call["render"]
        final == <<resizeCatchUpAttempts, bufferSize,
                   {out[i] : i \in {j \in 1..Len(out) :
                      out[j].ev \in {"handleExposeEvent", "handleGeometryChange"}}}>>
    IN final \in
         {Outcome(SwapAlone(ResizeAlone(StartOutcome, r.width, r.height),
                            s.width, s.height)),
          Outcome(ResizeAlone(SwapAlone(StartOutcome, s.width, s.height),
                              r.width, r.height))}


\* C23: from a setVisible(false) call to the next setVisible(true) call no
\* state but minimized is requested from the compositor, whatever other
\* calls are made: a hidden window is not asked to become restored,
\* maximized or fullscreen, and the state requested last stays minimized.
C23_HiddenStaysMinimized ==
  [][hidden' =>
       \A i \in 1..Len(out') :
         out'[i].ev = "mir_surface_set_state" => out'[i].arg = "minimized"]_vars


\* The rectangle createWindow starts from: the available geometry of the
\* screen for a maximized window, the current geometry of the window
\* otherwise.
SourceRect == IF state = "Maximized" THEN call.availableGeometry ELSE geometry
\* The surface spec has been built for a window that is not fullscreen.
SpecBuilt == pc = "creating" /\ call.name = "UbuntuWindow" /\ state # "FullScreen"

\* C24 as stated: for a window created maximized, normal or minimized, the
\* width and height in the surface spec are those of the source rectangle.
C24_SpecSizeIsSourceSize ==
  (SpecBuilt /\ state \in {"Maximized", "NoState", "Minimized"}) =>
    Size(out[1].rect) = Size(SourceRect)

\* C24 amended: the width in the surface spec is the width of the source
\* rectangle; the height is the height of the source rectangle plus its Y
\* origin minus the panel height, the bottom edge staying where it was.
C24_SpecSizeKeepsBottom ==
  (SpecBuilt /\ state \in {"Maximized", "NoState", "Minimized"}) =>
    /\ out[1].rect.x1 = 0
    /\ out[1].rect.y1 = 0
    /\ Width(out[1].rect) = Width(SourceRect)
    /\ Height(out[1].rect) =
         Height(SourceRect) + SourceRect.y1 - panelHeight(call.env)
    /\ local.geometry.y2 = SourceRect.y2

\* C24 witness: a maximized window, available geometry from y = 1 and 79
\* high, GRID_UNIT_PX not set: the spec asks for a height of 54.
C24_Witness ==
  /\ SpecBuilt
  /\ state = "Maximized"
  /\ call.env = Unset
  /\ call.availableGeometry.y1 = 1
  /\ Height(call.availableGeometry) = ScreenH - 1
  /\ Height(out[1].rect) = ScreenH - 26
  /\ Width(out[1].rect) = ScreenW

====
